---- MODULE Spec2Model ----
(***************************************************************************)
(* Model of internal/peer/peer.go: one Peer link of the rain BitTorrent    *)
(* client.  The read loop (Peer.Run) is modelled at byte level on the      *)
(* incoming stream, the send operations at byte level on the outgoing      *)
(* stream.                                                                 *)
(***************************************************************************)
EXTENDS Integers, Sequences, FiniteSets, TLC

VARIABLES
    stream,         \* bytes the remote peer has written on the connection so far
    nsent,          \* number of messages the remote peer has written
    pos,            \* number of bytes of stream that Run has consumed
    pc,             \* position of Run
    localBitfield,  \* Run's argument b (nil before Run is called)
    unguarded,      \* fields of the per-peer state Run has used without holding p.m
    first,          \* Run's local variable first
    h,              \* Run's local variable h.Index (Have being forwarded)
    i,              \* Run's loop counter i of the bitfield scan
    bitfield,       \* p.bitfield, the pieces that the peer has
    amChoking, amInterested, peerChoking, peerInterested,
    messages,       \* p.messages, the buffered channel to the coordinator
    received,       \* the events the coordinator has taken from p.messages
    stopC,          \* TRUE when p.stopC is closed
    conn,           \* p.conn: "open", "closed" (Close was called), "broken"
    disconnected,   \* number of times p.disconnected was closed
    exit,           \* why Run returned ("" while it runs)
    wire,           \* bytes written on the connection by this side
    cpc,            \* position of each caller of the Send operations
    returned        \* the Send calls that returned, in order

vars == << stream, nsent, pos, pc, localBitfield, unguarded, first, h, i, bitfield,
           amChoking, amInterested, peerChoking, peerInterested,
           messages, received, stopC, conn, disconnected, exit, wire,
           cpc, returned >>

runVars  == << pos, pc, localBitfield, unguarded, first, h, i, disconnected, exit >>
flagVars == << amChoking, amInterested, peerChoking, peerInterested >>
sendVars == << cpc, returned >>

---------------------------------------------------------------------------
(* Bounds *)

\* numPieces handed to New
NumPieces == 3
\* number of messages the remote peer writes
MaxMsgs == 2
\* capacity of the messages channel
ChanCap == 1
\* number of Send calls
MaxCalls == 3

---------------------------------------------------------------------------
(* Constants of the program *)

maxAllowedBlockSize == 32 * 1024

messageid_Choke == 0
messageid_Unchoke == 1
messageid_Interested == 2
messageid_NotInterested == 3
messageid_Have == 4
messageid_Bitfield == 5
messageid_Request == 6
messageid_Piece == 7
messageid_Port == 9

---------------------------------------------------------------------------
(* Bytes and big-endian integers *)

\* binary.Write(buf, binary.BigEndian, uint32(n))
BE32(n) == << n \div 16777216, (n \div 65536) % 256, (n \div 256) % 256, n % 256 >>

\* binary.Read(conn, binary.BigEndian, &uint32) on the 4 bytes of s after
\* offset at: the exact value.  The messages of PeerMessages and the buffers
\* of writeMessage keep the first byte below 128, so that the value is an
\* integer TLC can hold.
U32(s, at) ==
    s[at + 1] * 16777216 + s[at + 2] * 65536 + s[at + 3] * 256 + s[at + 4]

\* the header and payload that writeMessage puts in its buffer
Encode(id, payload) == BE32(1 + Len(payload)) \o << id >> \o payload

---------------------------------------------------------------------------
(* package bitfield *)

\* bitfield.NumBytes(n) = ceil(n / 8)
NumBytes(n) == (n + 7) \div 8

Pow2(k) == IF k = 0 THEN 1 ELSE IF k = 1 THEN 2 ELSE IF k = 2 THEN 4
      ELSE IF k = 3 THEN 8 ELSE IF k = 4 THEN 16 ELSE IF k = 5 THEN 32
      ELSE IF k = 6 THEN 64 ELSE 128

\* bit k (0 = most significant) of a byte
ByteBit(byte, k) == (byte \div Pow2(7 - k)) % 2 = 1

\* a nil *Bitfield
NilBitfield == [nil |-> TRUE, length |-> 0, b |-> << >>]

\* bitfield.NewBytes(b, length): the unused trailing bits of the last byte are cleared
NewBytes(b, length) ==
    LET mod  == length % 8
        keep == Pow2(8 - mod)
        last == Len(b)
    IN  [nil |-> FALSE, length |-> length,
         b |-> [k \in 1..Len(b) |->
                  IF k = last /\ mod # 0 THEN (b[k] \div keep) * keep ELSE b[k]]]

\* (*Bitfield).Len
BfLen(bf) == bf.length

\* (*Bitfield).Test(i), for i < Len
Test(bf, k) == ByteBit(bf.b[(k \div 8) + 1], k % 8)

\* (*Bitfield).Set(i), for i < Len
Set(bf, k) ==
    IF Test(bf, k) THEN bf
    ELSE [bf EXCEPT !.b[(k \div 8) + 1] = @ + Pow2(7 - (k % 8))]

\* (*Bitfield).Count
Count(bf) == Cardinality({k \in 0..(bf.length - 1) : Test(bf, k)})

\* (*Bitfield).Bytes
Bytes(bf) == bf.b

---------------------------------------------------------------------------
(* Events forwarded on p.messages *)

ChokeEvent == [ev |-> "Choke", index |-> 0]

\* a Have event that loses its index
HaveEvent_Zero(k) == [ev |-> "Have", index |-> 0]

\* Message{p, h}, Message{p, Have{i}}
HaveEvent(k) == [ev |-> "Have", index |-> k]

\* everything this link has put on p.messages, in order
Forwarded == received \o messages

---------------------------------------------------------------------------
(* Construction: New *)

Callers == {"c1", "c2"}

\* the caller of the operations that are called one after the other
Sequential == {"c1"}

\* a caller that is in no Send operation
Idle == [at |-> "idle", op |-> "", id |-> 0, buf |-> << >>, found |-> FALSE, w0 |-> 0]

Init ==
    /\ stream = << >>
    /\ nsent = 0
    /\ pos = 0
    /\ pc = "SendBitfield"
    /\ localBitfield = NilBitfield
    /\ unguarded = {}
    /\ first = TRUE
    /\ h = 0
    /\ i = 0
    /\ bitfield = NilBitfield
    /\ amChoking = TRUE
    /\ amInterested = FALSE
    /\ peerChoking = TRUE
    /\ peerInterested = FALSE
    /\ messages = << >>
    /\ received = << >>
    /\ stopC = FALSE
    /\ conn = "open"
    /\ disconnected = 0
    /\ exit = ""
    /\ wire = << >>
    /\ cpc = [c \in Callers |-> Idle]
    /\ returned = << >>

---------------------------------------------------------------------------
(* The remote peer *)

\* payloads of the bitfield messages the remote peer may send
BitfieldPayloads == [1..NumBytes(NumPieces) -> {160, 255}]

\* the messages the remote peer may write
PeerMessages ==
    {<< 0, 0, 0, 0 >>}
    \cup {Encode(id, << >>) : id \in {messageid_Choke, messageid_Unchoke,
                                      messageid_Interested, messageid_NotInterested}}
    \cup {Encode(messageid_Have, BE32(k)) : k \in {0, NumPieces - 1, NumPieces, NumPieces + 1}}
    \cup {Encode(messageid_Bitfield, b) : b \in BitfieldPayloads}
    \cup {Encode(messageid_Bitfield, b \o << 0 >>) : b \in BitfieldPayloads}
    \cup {Encode(messageid_Bitfield, << >>)}
    \cup {Encode(messageid_Request, BE32(0) \o BE32(0) \o BE32(n)) :
             n \in {maxAllowedBlockSize, maxAllowedBlockSize + 1}}
    \cup {Encode(messageid_Piece, BE32(0) \o BE32(0) \o blk) :
             blk \in {<< >>, << 0, 0, 0, 1 >>}}
    \cup {Encode(messageid_Piece, BE32(NumPieces) \o BE32(0))}
    \cup {Encode(messageid_Port, << 26, 225 >>)}
    \cup {Encode(messageid_Choke, << 0 >>)}

\* the bitfields the local side may hand to Run
LocalBitfields == {NewBytes(b, NumPieces) : b \in [1..NumBytes(NumPieces) -> {0, 128}]}

\* the connection fails (reset by the remote peer, network error)
ConnBreak ==
    /\ conn = "open"
    /\ conn' = "broken"
    /\ UNCHANGED << stream, nsent, runVars, flagVars, sendVars, bitfield,
                    messages, received, stopC, wire >>

\* the coordinator takes an event from the messages channel
Drain ==
    /\ messages # << >>
    /\ received' = Append(received, Head(messages))
    /\ messages' = Tail(messages)
    /\ UNCHANGED << stream, nsent, runVars, flagVars, sendVars, bitfield,
                    stopC, conn, wire >>

---------------------------------------------------------------------------
(* Peer.Close *)

\* close(p.stopC).  A second call of Close panics on the closed channel
\* and is not made.
CloseStop ==
    /\ ~stopC
    /\ stopC' = TRUE
    /\ UNCHANGED << stream, nsent, runVars, flagVars, sendVars, bitfield,
                    messages, received, conn, wire >>

\* p.conn.Close(), the second statement of Close: other goroutines run
\* between the two
CloseConn ==
    /\ stopC
    /\ conn # "closed"
    /\ conn' = "closed"
    /\ UNCHANGED << stream, nsent, runVars, flagVars, sendVars, bitfield,
                    messages, received, stopC, wire >>

Close == CloseStop \/ CloseConn

---------------------------------------------------------------------------
(* Peer.Run *)

\* Run as it would be with close(p.disconnected) written before each return
\* and left out of the select's stop case
Exit_NotOnStop(reason) ==
    /\ pc' = "Done"
    /\ exit' = reason
    /\ disconnected' = IF reason = "stop" THEN disconnected ELSE disconnected + 1

\* Run returns: the deferred close(p.disconnected) runs on every return and
\* on a panic
Exit(reason) ==
    /\ pc' = "Done"
    /\ exit' = reason
    /\ disconnected' = disconnected + 1

\* the end of the switch: first = false, and the loop goes on
EndSwitch ==
    /\ first' = FALSE
    /\ pc' = "Loop"

\* a select that has no stop case
StopObserved_Never == FALSE

\* case <-p.stopC of the select
StopObserved == stopC

\* case p.messages <- e of the select
Forward(e) ==
    /\ Len(messages) < ChanCap
    /\ messages' = Append(messages, e)

\* sendBitfield sending also when b.Count() is 0
NothingToSend_Never(b) == FALSE

\* b.Count() == 0: sending the bitfield is omitted
NothingToSend(b) == Count(b) = 0

\* p.sendBitfield(b), and the return when it fails
RunSendBitfield ==
    /\ pc = "SendBitfield"
    /\ \E b \in LocalBitfields :
         /\ localBitfield' = b
         /\ IF NothingToSend(b)
            THEN /\ pc' = "Loop"
                 /\ UNCHANGED << wire, exit, disconnected >>
            ELSE IF conn = "open"
            THEN /\ wire' = wire \o Encode(messageid_Bitfield, Bytes(b))
                 /\ pc' = "Loop"
                 /\ UNCHANGED << exit, disconnected >>
            ELSE /\ Exit("sendBitfield")
                 /\ UNCHANGED wire
    /\ UNCHANGED << unguarded, stream, nsent, pos, first, h, i, flagVars, sendVars,
                    bitfield, messages, received, stopC, conn >>

\* p.conn.SetReadDeadline: fails on a connection that Close has closed
RunSetReadDeadline ==
    /\ pc = "Loop"
    /\ IF conn = "closed"
       THEN Exit("deadline")
       ELSE pc' = "Read" /\ UNCHANGED << exit, disconnected >>
    /\ UNCHANGED << localBitfield, unguarded, stream, nsent, pos, first, h, i, flagVars,
                    sendVars, bitfield, messages, received, stopC, conn, wire >>

\* bytes written by the remote peer and not read yet
Avail == Len(stream) - pos

\* the uint32 length read at the top of the loop
length == U32(stream, pos)

\* the message id read after the length
id == stream[pos + 5]

FlagIds == {messageid_Choke, messageid_Unchoke, messageid_Interested,
            messageid_NotInterested}

\* the length check accepting a payload that is too long
InvalidBitfieldLength_Shorter(n) == n < NumBytes(NumPieces)

\* length != numBytes
InvalidBitfieldLength(n) == n # NumBytes(NumPieces)

\* a bitfield message that the switch accepts
BitfieldAccepted == first /\ ~InvalidBitfieldLength(length - 1)

\* the number of bytes one iteration of the loop reads from the connection:
\* the reads block until that many bytes have arrived
Need ==
    IF Avail < 4 THEN 4
    ELSE IF length = 0 THEN 4
    ELSE IF Avail < 5 THEN 5
    ELSE IF id \in FlagIds THEN 5
    ELSE IF id = messageid_Have THEN 9
    ELSE IF id = messageid_Bitfield
         THEN (IF BitfieldAccepted THEN 5 + NumBytes(NumPieces) ELSE 5)
    ELSE IF id = messageid_Piece THEN 13
    ELSE IF length - 1 > Avail - 5 THEN Avail + 1
    ELSE 5 + (length - 1)

\* The remote peer writes its next message.  Only the order of the bytes
\* matters to Run, so the message is written when Run waits for bytes.
RemoteWrite(m) ==
    /\ pc = "Read"
    /\ conn = "open"
    /\ Avail < Need
    /\ nsent < MaxMsgs
    /\ stream' = stream \o m
    /\ nsent' = nsent + 1
    /\ UNCHANGED << runVars, flagVars, sendVars, bitfield, messages, received,
                    stopC, conn, wire >>

\* every read of this iteration succeeds
Readable == pc = "Read" /\ conn = "open" /\ Avail >= Need

\* a read fails: the connection is closed or broken, or the remote peer
\* closes or stays silent before the bytes waited for arrive.  The reads
\* before the failing one have consumed their bytes: all that arrived when
\* Run waits for more on an open connection, any part of the message short
\* of the whole when the connection is closed or breaks during the reads.
RunReadError ==
    /\ pc = "Read"
    /\ conn # "open" \/ Avail < Need
    /\ \E r \in {"eof", "timeout", "io"} :
         /\ r = "eof" => conn = "open" /\ Avail = 0
         /\ r = "timeout" => conn = "open"
         /\ r = "io" => conn # "open" \/ Avail > 0
         /\ Exit(r)
    /\ \E n \in 0..(IF Avail < Need THEN Avail ELSE Need - 1) :
         /\ conn = "open" => n = Avail
         /\ pos' = pos + n
    /\ UNCHANGED << localBitfield, unguarded, stream, nsent, first, h, i, flagVars,
                    sendVars, bitfield, messages, received, stopC, conn, wire >>

\* length == 0: keep-alive, continue
RunKeepAlive ==
    /\ Readable
    /\ length = 0
    /\ pos' = pos + 4
    /\ pc' = "Loop"
    /\ UNCHANGED << localBitfield, unguarded, stream, nsent, first, h, i, disconnected,
                    exit, flagVars,
                    sendVars, bitfield, messages, received, stopC, conn, wire >>

\* case messageid.Choke, up to the select
RunChoke ==
    /\ Readable
    /\ length # 0
    /\ id = messageid_Choke
    /\ pos' = pos + 5
    /\ peerChoking' = TRUE
    /\ pc' = "FwdChoke"
    /\ UNCHANGED << localBitfield, unguarded, stream, nsent, first, h, i, disconnected, exit,
                    amChoking, amInterested, peerInterested,
                    sendVars, bitfield, messages, received, stopC, conn, wire >>

\* the select of case messageid.Choke
RunFwdChoke ==
    /\ pc = "FwdChoke"
    /\ \/ Forward(ChokeEvent) /\ EndSwitch /\ UNCHANGED << exit, disconnected >>
       \/ StopObserved /\ Exit("stop") /\ UNCHANGED << messages, first >>
    /\ UNCHANGED << localBitfield, unguarded, stream, nsent, pos, h, i, flagVars, sendVars,
                    bitfield,
                    received, stopC, conn, wire >>

\* case messageid.Unchoke
RunUnchoke ==
    /\ Readable
    /\ length # 0
    /\ id = messageid_Unchoke
    /\ pos' = pos + 5
    /\ peerChoking' = FALSE
    /\ EndSwitch
    /\ UNCHANGED << localBitfield, unguarded, stream, nsent, h, i, disconnected, exit,
                    amChoking, amInterested, peerInterested,
                    sendVars, bitfield, messages, received, stopC, conn, wire >>

\* case messageid.Interested
RunInterested ==
    /\ Readable
    /\ length # 0
    /\ id = messageid_Interested
    /\ pos' = pos + 5
    /\ peerInterested' = TRUE
    /\ EndSwitch
    /\ UNCHANGED << localBitfield, unguarded, stream, nsent, h, i, disconnected, exit,
                    amChoking, amInterested, peerChoking,
                    sendVars, bitfield, messages, received, stopC, conn, wire >>

\* case messageid.NotInterested
RunNotInterested ==
    /\ Readable
    /\ length # 0
    /\ id = messageid_NotInterested
    /\ pos' = pos + 5
    /\ peerInterested' = FALSE
    /\ EndSwitch
    /\ UNCHANGED << localBitfield, unguarded, stream, nsent, h, i, disconnected, exit,
                    amChoking, amInterested, peerChoking,
                    sendVars, bitfield, messages, received, stopC, conn, wire >>

\* p.bitfield is used at a place where p.m is not held
Unlocked(field) == unguarded \cup {field}

\* the bound check with > for >=
InvalidIndex_Greater(k) == k > NumPieces

\* h.Index >= p.numPieces
InvalidIndex(k) == k >= NumPieces

\* case messageid.Have, up to the select.  p.bitfield.Set on a nil bitfield,
\* or with an index outside the bitfield, panics.
RunHave ==
    /\ Readable
    /\ length # 0
    /\ id = messageid_Have
    /\ pos' = pos + 9
    /\ LET index == U32(stream, pos + 5) IN
         IF InvalidIndex(index)
         THEN /\ Exit("violation")
              /\ UNCHANGED << bitfield, h, unguarded >>
         ELSE IF bitfield.nil \/ index >= BfLen(bitfield)
         THEN /\ Exit("panic")
              /\ unguarded' = Unlocked("bitfield")
              /\ UNCHANGED << bitfield, h >>
         ELSE /\ bitfield' = Set(bitfield, index)
              /\ unguarded' = Unlocked("bitfield")
              /\ h' = index
              /\ pc' = "FwdHave"
              /\ UNCHANGED << exit, disconnected >>
    /\ UNCHANGED << localBitfield, stream, nsent, first, i, flagVars, sendVars,
                    messages, received, stopC, conn, wire >>

\* the select of case messageid.Have
RunFwdHave ==
    /\ pc = "FwdHave"
    /\ \/ Forward(HaveEvent(h)) /\ EndSwitch /\ UNCHANGED << exit, disconnected >>
       \/ StopObserved /\ Exit("stop") /\ UNCHANGED << messages, first >>
    /\ UNCHANGED << localBitfield, unguarded, stream, nsent, pos, h, i, flagVars, sendVars,
                    bitfield,
                    received, stopC, conn, wire >>

\* case messageid.Bitfield, up to the scan of the bits
RunBitfield ==
    /\ Readable
    /\ length # 0
    /\ id = messageid_Bitfield
    /\ IF ~first
       THEN /\ Exit("violation")
            /\ pos' = pos + 5
            /\ UNCHANGED << bitfield, i, unguarded >>
       ELSE LET numBytes == NumBytes(NumPieces) IN
            IF InvalidBitfieldLength(length - 1)
            THEN /\ Exit("violation")
                 /\ pos' = pos + 5
                 /\ UNCHANGED << bitfield, i, unguarded >>
            ELSE /\ bitfield' = NewBytes(SubSeq(stream, pos + 6, pos + 5 + numBytes),
                                         NumPieces)
                 /\ pos' = pos + 5 + numBytes
                 /\ unguarded' = Unlocked("bitfield")
                 /\ i' = 0
                 /\ pc' = "Scan"
                 /\ UNCHANGED << exit, disconnected >>
    /\ UNCHANGED << localBitfield, stream, nsent, first, h, flagVars, sendVars,
                    messages, received, stopC, conn, wire >>

\* the loop stopping one bit early
ScanGoesOn_OneShort == i < BfLen(bitfield) - 1

\* i < p.bitfield.Len()
ScanGoesOn == i < BfLen(bitfield)

\* one iteration of the loop over the bits of the received bitfield
RunScan ==
    /\ pc = "Scan"
    /\ unguarded' = Unlocked("bitfield")
    /\ IF ScanGoesOn
       THEN IF Test(bitfield, i)
            THEN \/ /\ Forward(HaveEvent(i))
                    /\ i' = i + 1
                    /\ UNCHANGED << pc, first, exit, disconnected >>
                 \/ /\ StopObserved
                    /\ Exit("stop")
                    /\ UNCHANGED << messages, first, i >>
            ELSE /\ i' = i + 1
                 /\ UNCHANGED << pc, first, exit, disconnected, messages >>
       ELSE /\ EndSwitch
            /\ UNCHANGED << i, exit, disconnected, messages >>
    /\ UNCHANGED << localBitfield, stream, nsent, pos, h, flagVars, sendVars, bitfield,
                    received, stopC, conn, wire >>

\* case messageid.Piece: the index and begin are read, nothing else
RunPiece ==
    /\ Readable
    /\ length # 0
    /\ id = messageid_Piece
    /\ pos' = pos + 13
    /\ EndSwitch
    /\ UNCHANGED << localBitfield, unguarded, stream, nsent, h, i, disconnected, exit, flagVars,
                    sendVars, bitfield, messages, received, stopC, conn, wire >>

\* default: io.CopyN(ioutil.Discard, p.conn, length)
RunDefault ==
    /\ Readable
    /\ length # 0
    /\ id \notin FlagIds \cup {messageid_Have, messageid_Bitfield, messageid_Piece}
    /\ pos' = pos + 5 + (length - 1)
    /\ EndSwitch
    /\ UNCHANGED << localBitfield, unguarded, stream, nsent, h, i, disconnected, exit, flagVars,
                    sendVars, bitfield, messages, received, stopC, conn, wire >>

\* one step of Run
RunStep ==
    \/ RunSendBitfield
    \/ RunSetReadDeadline
    \/ RunReadError
    \/ RunKeepAlive
    \/ RunChoke
    \/ RunFwdChoke
    \/ RunUnchoke
    \/ RunInterested
    \/ RunNotInterested
    \/ RunHave
    \/ RunFwdHave
    \/ RunBitfield
    \/ RunScan
    \/ RunPiece
    \/ RunDefault

---------------------------------------------------------------------------
(* The link with its read loop *)

Next ==
    \/ RunStep
    \/ \E m \in PeerMessages : RemoteWrite(m)
    \/ ConnBreak
    \/ Drain
    \/ Close

Spec == Init /\ [][Next]_vars

\* The goroutine of Run is scheduled: when Run can take a step, it takes one.
\* Nothing is assumed of the coordinator, the remote peer or the callers.
FairSpec == Init /\ [][Next]_vars /\ WF_vars(RunStep)

---------------------------------------------------------------------------
(* The Send operations *)

\* the number of Send calls made so far
Called == Len(returned) + Cardinality({c \in Callers : cpc[c].at # "idle"})

\* the record of a call that returned: the operation, the value of its flag
\* found under the lock, whether it returned an error, and the length of the
\* outgoing stream when it was called and when it returned
Return(op, found, err, w0, w1) ==
    [op |-> op, found |-> found, err |-> err, w0 |-> w0, w1 |-> w1]

\* SendInterested without its check
AlreadyInterested_Never == FALSE

\* if p.amInterested { return nil }
AlreadyInterested == amInterested

\* if !p.amInterested { return nil }
AlreadyNotInterested == ~amInterested

\* SendChoke without its check
AlreadyChoking_Never == FALSE

\* if p.amChoking { return nil }
AlreadyChoking == amChoking

\* if !p.amChoking { return nil }
AlreadyNotChoking == ~amChoking

\* SendInterested, up to the call of writeMessage
SendInterested(c) ==
    /\ cpc[c].at = "idle"
    /\ Called < MaxCalls
    /\ IF AlreadyInterested
       THEN /\ returned' = Append(returned,
                                  Return("SendInterested", amInterested, FALSE, Len(wire), Len(wire)))
            /\ UNCHANGED << cpc, amInterested >>
       ELSE /\ amInterested' = TRUE
            /\ cpc' = [cpc EXCEPT ![c] = [at |-> "write", op |-> "SendInterested",
                                          id |-> messageid_Interested,
                                          buf |-> Encode(messageid_Interested, << >>),
                                          found |-> amInterested, w0 |-> Len(wire)]]
            /\ UNCHANGED returned
    /\ UNCHANGED << stream, nsent, runVars, bitfield, amChoking, peerChoking,
                    peerInterested, messages, received, stopC, conn, wire >>

\* SendNotInterested, up to the call of writeMessage
SendNotInterested(c) ==
    /\ cpc[c].at = "idle"
    /\ Called < MaxCalls
    /\ IF AlreadyNotInterested
       THEN /\ returned' = Append(returned,
                                  Return("SendNotInterested", amInterested, FALSE, Len(wire), Len(wire)))
            /\ UNCHANGED << cpc, amInterested >>
       ELSE /\ amInterested' = FALSE
            /\ cpc' = [cpc EXCEPT ![c] = [at |-> "write", op |-> "SendNotInterested",
                                          id |-> messageid_NotInterested,
                                          buf |-> Encode(messageid_NotInterested, << >>),
                                          found |-> amInterested, w0 |-> Len(wire)]]
            /\ UNCHANGED returned
    /\ UNCHANGED << stream, nsent, runVars, bitfield, amChoking, peerChoking,
                    peerInterested, messages, received, stopC, conn, wire >>

\* SendChoke, up to the call of writeMessage
SendChoke(c) ==
    /\ cpc[c].at = "idle"
    /\ Called < MaxCalls
    /\ IF AlreadyChoking
       THEN /\ returned' = Append(returned,
                                  Return("SendChoke", amChoking, FALSE, Len(wire), Len(wire)))
            /\ UNCHANGED << cpc, amChoking >>
       ELSE /\ amChoking' = TRUE
            /\ cpc' = [cpc EXCEPT ![c] = [at |-> "write", op |-> "SendChoke",
                                          id |-> messageid_Choke,
                                          buf |-> Encode(messageid_Choke, << >>),
                                          found |-> amChoking, w0 |-> Len(wire)]]
            /\ UNCHANGED returned
    /\ UNCHANGED << stream, nsent, runVars, bitfield, amInterested, peerChoking,
                    peerInterested, messages, received, stopC, conn, wire >>

\* SendUnchoke, up to the call of writeMessage
SendUnchoke(c) ==
    /\ cpc[c].at = "idle"
    /\ Called < MaxCalls
    /\ IF AlreadyNotChoking
       THEN /\ returned' = Append(returned,
                                  Return("SendUnchoke", amChoking, FALSE, Len(wire), Len(wire)))
            /\ UNCHANGED << cpc, amChoking >>
       ELSE /\ amChoking' = FALSE
            /\ cpc' = [cpc EXCEPT ![c] = [at |-> "write", op |-> "SendUnchoke",
                                          id |-> messageid_Unchoke,
                                          buf |-> Encode(messageid_Unchoke, << >>),
                                          found |-> amChoking, w0 |-> Len(wire)]]
            /\ UNCHANGED returned
    /\ UNCHANGED << stream, nsent, runVars, bitfield, amInterested, peerChoking,
                    peerInterested, messages, received, stopC, conn, wire >>

\* a writeMessage that writes the length prefix in a call of its own
WriteCall_PrefixFirst(buf) == IF Len(buf) > 4 THEN SubSeq(buf, 1, 4) ELSE buf

\* the bytes handed to one call of p.conn.Write: the whole buffer
WriteCall(buf) == buf

\* writeMessage of a Send operation, and the operation's return: the buffer
\* goes to p.conn.Write, which fails on a connection that is closed or
\* broken.  Calls of Write on one net.Conn do not interleave their bytes.
WriteMessage(c) ==
    /\ cpc[c].at = "write"
    /\ IF conn = "open" /\ WriteCall(cpc[c].buf) # cpc[c].buf
       THEN /\ wire' = wire \o WriteCall(cpc[c].buf)
            /\ cpc' = [cpc EXCEPT ![c].buf =
                          SubSeq(@, Len(WriteCall(@)) + 1, Len(@))]
            /\ UNCHANGED returned
       ELSE /\ IF conn = "open"
               THEN wire' = wire \o cpc[c].buf
               ELSE UNCHANGED wire
            /\ returned' = Append(returned,
                                  Return(cpc[c].op, cpc[c].found, conn # "open",
                                         cpc[c].w0, Len(wire')))
            /\ cpc' = [cpc EXCEPT ![c] = Idle]
    /\ UNCHANGED << stream, nsent, runVars, flagVars, bitfield, messages, received,
                    stopC, conn >>

\* the requests and blocks the callers send
Requests == {BE32(0) \o BE32(0) \o BE32(16384)}
Blocks == {BE32(1) \o BE32(0) \o << 7, 7 >>}

\* SendRequest, up to the call of writeMessage
SendRequest(c) ==
    /\ cpc[c].at = "idle"
    /\ Called < MaxCalls
    /\ \E req \in Requests :
         cpc' = [cpc EXCEPT ![c] = [at |-> "write", op |-> "SendRequest",
                                    id |-> messageid_Request,
                                    buf |-> Encode(messageid_Request, req),
                                    found |-> FALSE, w0 |-> Len(wire)]]
    /\ UNCHANGED << stream, nsent, runVars, flagVars, bitfield, messages, received,
                    stopC, conn, wire, returned >>

\* SendPiece, up to the call of writeMessage
SendPiece(c) ==
    /\ cpc[c].at = "idle"
    /\ Called < MaxCalls
    /\ \E msg \in Blocks :
         cpc' = [cpc EXCEPT ![c] = [at |-> "write", op |-> "SendPiece",
                                    id |-> messageid_Piece,
                                    buf |-> Encode(messageid_Piece, msg),
                                    found |-> FALSE, w0 |-> Len(wire)]]
    /\ UNCHANGED << stream, nsent, runVars, flagVars, bitfield, messages, received,
                    stopC, conn, wire, returned >>

\* the Send operations of one link, called one after the other
SendNext ==
    \/ \E c \in Sequential : SendInterested(c)
    \/ \E c \in Sequential : SendNotInterested(c)
    \/ \E c \in Sequential : SendChoke(c)
    \/ \E c \in Sequential : SendUnchoke(c)
    \/ \E c \in Sequential : WriteMessage(c)
    \/ ConnBreak
    \/ Close

SpecSend == Init /\ [][SendNext]_vars

\* the Send operations called by concurrent goroutines, and Run's own send
\* of the local bitfield
ConcNext ==
    \/ \E c \in Callers : SendInterested(c)
    \/ \E c \in Callers : SendNotInterested(c)
    \/ \E c \in Callers : SendChoke(c)
    \/ \E c \in Callers : SendUnchoke(c)
    \/ \E c \in Callers : SendRequest(c)
    \/ \E c \in Callers : SendPiece(c)
    \/ \E c \in Callers : WriteMessage(c)
    \/ RunSendBitfield
    \/ ConnBreak
    \/ Close

SpecConc == Init /\ [][ConcNext]_vars

---------------------------------------------------------------------------
(* Framing *)

\* The offsets of stream s, from offset at on, at which a message starts
\* according to the length prefixes
RECURSIVE FrameStartsFrom(_, _)
FrameStartsFrom(s, at) ==
    IF at > Len(s) THEN {}
    ELSE IF at + 4 > Len(s) THEN {at}
    ELSE IF U32(s, at) > Len(s) THEN {at}
    ELSE {at} \cup FrameStartsFrom(s, at + 4 + U32(s, at))

FrameStarts(s) == FrameStartsFrom(s, 0)

\* The ids of the messages of the outgoing stream s, in order
RECURSIVE WireIds(_)
WireIds(s) ==
    IF Len(s) < 5 THEN << >>
    ELSE << s[5] >> \o WireIds(SubSeq(s, 4 + U32(s, 0) + 1, Len(s)))

\* a Run step that reads a message from the connection
ReadsMessage == Readable /\ pos' # pos

\* a message with this id is what Run is about to read
Incoming(msgid) == Readable /\ length # 0 /\ id = msgid

---------------------------------------------------------------------------
(* Claims about Run *)

\* C1: the disconnect signal fires exactly once, when Run exits, on every
\* exit path; it has not fired while the read loop is running.
C1_DisconnectOnceAtExit ==
    /\ pc = "Done" => disconnected = 1 /\ exit # ""
    /\ pc # "Done" => disconnected = 0 /\ exit = ""

\* Run has returned from the select of a blocked forward, on the stop signal
C1_Witness == pc = "Done" /\ exit = "stop" /\ disconnected = 1 /\ Len(messages) = ChanCap

\* C2: a bitfield message that any other message precedes (a keep-alive
\* included) makes Run exit; the peer's bitfield is not replaced and no
\* event is forwarded.
C2_BitfieldOnlyFirst ==
    [][ (Incoming(messageid_Bitfield) /\ pos > 0 /\ pos \in FrameStarts(stream)
            /\ ReadsMessage)
        => (pc' = "Done" /\ bitfield' = bitfield /\ Forwarded' = Forwarded) ]_vars

\* C3: a have message with index >= numPieces makes Run return as a
\* protocol violation; the bitfield is unchanged and no event is forwarded.
C3_HaveOutOfRange ==
    [][ (Incoming(messageid_Have) /\ U32(stream, pos + 5) >= NumPieces /\ ReadsMessage)
        => (/\ pc' = "Done"
            /\ exit' = "violation"
            /\ disconnected' = 1
            /\ bitfield' = bitfield
            /\ messages' = messages
            /\ received' = received) ]_vars

\* Run has returned on a have message with index = numPieces
C3_Witness ==
    /\ pc = "Done"
    /\ exit = "violation"
    /\ pos >= 9
    /\ stream[pos - 4] = messageid_Have
    /\ U32(stream, pos - 4) = NumPieces
    /\ Forwarded = << >>

\* C4: a request message with length > maxAllowedBlockSize makes Run exit.
C4_OversizedRequestRejected ==
    [][ (Incoming(messageid_Request) /\ length = 13 /\ pos \in FrameStarts(stream)
            /\ U32(stream, pos + 13) > maxAllowedBlockSize /\ ReadsMessage)
        => pc' = "Done" ]_vars

\* C7: when the loop has handled a message and goes on, it is at the start
\* of the next message of the stream.
C7_FramingKept == pc \in {"Loop", "Read"} => pos \in FrameStarts(stream)

\* C8: a first bitfield message of the wrong length makes Run return as a
\* protocol violation without reading the payload, the bitfield stays nil
\* and no event is forwarded; a bitfield that is set has numPieces bits.
C8_BitfieldLength ==
    /\ [][ (Incoming(messageid_Bitfield) /\ first
               /\ length - 1 # NumBytes(NumPieces) /\ ReadsMessage)
           => (/\ pc' = "Done"
               /\ exit' = "violation"
               /\ pos' = pos + 5
               /\ bitfield' = NilBitfield
               /\ Forwarded' = << >>) ]_vars
    /\ [](~bitfield.nil => /\ BfLen(bitfield) = NumPieces
                           /\ Len(Bytes(bitfield)) = NumBytes(NumPieces))

\* Run has returned on a first bitfield message that is one byte too long
C8_Witness ==
    /\ pc = "Done"
    /\ exit = "violation"
    /\ pos = 5
    /\ stream[5] = messageid_Bitfield
    /\ U32(stream, 0) = 1 + NumBytes(NumPieces) + 1
    /\ bitfield.nil

\* the payload of the bitfield message that ends at offset pos
Payload == SubSeq(stream, pos - NumBytes(NumPieces) + 1, pos)

\* Have{k} for every set bit k < n of bitfield bf, in ascending order
RECURSIVE HavesOf(_, _)
HavesOf(bf, n) ==
    IF n = 0 THEN << >>
    ELSE HavesOf(bf, n - 1) \o (IF Test(bf, n - 1) THEN << HaveEvent(n - 1) >> ELSE << >>)

\* C9: an accepted bitfield becomes the peer's piece set, and one Have{i} is
\* forwarded for every set bit i < numPieces and for no other, in ascending
\* order, before the next message is read, unless the stop signal interrupts.
C9_BitfieldHaves ==
    /\ [](pc = "Scan" =>
            /\ stream[pos - NumBytes(NumPieces)] = messageid_Bitfield
            /\ bitfield = NewBytes(Payload, NumPieces)
            /\ i <= NumPieces
            /\ Forwarded = HavesOf(bitfield, i))
    /\ [][ pc = "Scan" =>
            /\ pos' = pos
            /\ bitfield' = bitfield
            /\ pc' # "Scan" =>
                 \/ /\ pc' = "Loop"
                    /\ i = NumPieces
                    /\ Forwarded' = HavesOf(bitfield, NumPieces)
                 \/ pc' = "Done" /\ exit' = "stop" /\ stopC ]_vars

\* the scan of a bitfield with at least two set bits is over
C9_Witness ==
    /\ pc = "Loop"
    /\ ~first
    /\ pos = 5 + NumBytes(NumPieces)
    /\ stream[5] = messageid_Bitfield
    /\ Len(Forwarded) >= 2
    /\ Len(Forwarded) = Count(bitfield)
    /\ Len(Forwarded) < NumPieces + 1

\* C10: a have message with index < numPieces sets the bit in the peer's
\* bitfield and goes on to forward Have{index}, also when the bitfield is
\* still nil.
C10_HaveSetsBit ==
    [][ (Incoming(messageid_Have) /\ U32(stream, pos + 5) < NumPieces /\ ReadsMessage)
        => (/\ pc' = "FwdHave"
            /\ h' = U32(stream, pos + 5)
            /\ ~bitfield'.nil
            /\ Test(bitfield', U32(stream, pos + 5))) ]_vars

---------------------------------------------------------------------------
(* Claims about the Send operations *)

\* the messages with an id of ids that the calls k..n that returned wrote
Wrote(k, n, ids) ==
    SelectSeq(WireIds(SubSeq(wire, returned[k].w0 + 1, returned[n].w1)),
              LAMBDA x : x \in ids)

\* calls k and k + 1 are two calls of op in a row
TwoInARow(k, op) ==
    /\ k \in 1..(Len(returned) - 1)
    /\ returned[k].op = op
    /\ returned[k + 1].op = op

\* C5 as stated: two calls of SendChoke in a row put exactly one choke
\* message on the wire.
C5_ExactlyOneChoke ==
    \A k \in 1..MaxCalls :
        TwoInARow(k, "SendChoke") => Len(Wrote(k, k + 1, {messageid_Choke})) = 1

\* C5 as amended: two calls of SendChoke in a row put at most one choke
\* message on the wire: the second call writes nothing and returns no
\* error; the first writes one choke message if it found the link not
\* choking and its write succeeded, and nothing otherwise.
C5_AtMostOneChoke ==
    \A k \in 1..MaxCalls :
        TwoInARow(k, "SendChoke") =>
            /\ returned[k + 1].w1 = returned[k + 1].w0
            /\ ~returned[k + 1].err
            /\ returned[k].w1 = returned[k + 1].w0
            /\ Wrote(k, k + 1, {messageid_Choke}) =
                 (IF ~returned[k].found /\ ~returned[k].err
                  THEN << messageid_Choke >> ELSE << >>)
            /\ Wrote(k, k + 1, 0..255) = Wrote(k, k + 1, {messageid_Choke})

\* two calls of SendChoke in a row, the first of which wrote a choke message
C5_Witness ==
    \E k \in 1..MaxCalls :
        /\ TwoInARow(k, "SendChoke")
        /\ ~returned[k].found
        /\ Wrote(k, k + 1, {messageid_Choke}) = << messageid_Choke >>

\* the flag a Send operation sets, and the value it sets it to
FlagOf(op) == IF op \in {"SendChoke", "SendUnchoke"} THEN amChoking ELSE amInterested
ValueOf(op) == op \in {"SendChoke", "SendInterested"}

\* caller c calls op in this step
Calls(c, op) ==
    /\ cpc[c].at = "idle"
    /\ \/ cpc'[c].at = "write" /\ cpc'[c].op = op
       \/ /\ Len(returned') = Len(returned) + 1
          /\ returned'[Len(returned')].op = op

\* no two neighbours of a sequence are equal
NoRepeat(q) == \A k \in 1..(Len(q) - 1) : q[k] # q[k + 1]

\* C6: a Send operation called when its flag already has the value it sets
\* returns no error at once, writes nothing and changes no flag; so no two
\* consecutive choke/unchoke messages on the wire are of the same type, nor
\* two consecutive interested/not-interested messages.
C6_RedundantSendIsNoOp ==
    /\ [][ \A c \in Sequential :
           \A op \in {"SendChoke", "SendUnchoke", "SendInterested", "SendNotInterested"} :
             (Calls(c, op) /\ FlagOf(op) = ValueOf(op)) =>
                /\ returned' = Append(returned,
                                      Return(op, ValueOf(op), FALSE, Len(wire), Len(wire)))
                /\ cpc' = cpc
                /\ wire' = wire
                /\ UNCHANGED flagVars ]_vars
    /\ [](/\ NoRepeat(SelectSeq(WireIds(wire),
                      LAMBDA x : x \in {messageid_Choke, messageid_Unchoke}))
          /\ NoRepeat(SelectSeq(WireIds(wire),
                      LAMBDA x : x \in {messageid_Interested, messageid_NotInterested})))

\* a redundant SendInterested has returned after a message was written
C6_Witness ==
    /\ Len(returned) >= 2
    /\ returned[Len(returned)].op = "SendInterested"
    /\ returned[Len(returned)].found
    /\ returned[Len(returned)].w1 = returned[Len(returned)].w0
    /\ Len(WireIds(wire)) >= 1

---------------------------------------------------------------------------
(* Claims about Run, continued *)

\* C11: once the stop signal is raised by Close, Run eventually returns and
\* the disconnect signal fires, whether Run waits in a read or in a select
\* on a full messages channel that is never drained.
C11_StopLeadsToExit == stopC ~> (pc = "Done" /\ disconnected = 1)

\* Run has returned on the stop signal while forwarding the Have events of
\* a received bitfield onto a full channel
C11_Witness ==
    /\ stopC
    /\ pc = "Done"
    /\ exit = "stop"
    /\ first
    /\ ~bitfield.nil
    /\ Len(messages) = ChanCap
    /\ disconnected = 1

\* C12: Run writes the local bitfield, as the first message and before it
\* reads anything, iff the local bitfield has a set bit; with no set bit no
\* bitfield message is ever written.  If the write fails, Run returns
\* without having read or processed any incoming message.
C12_LocalBitfieldFirst ==
    /\ pc = "SendBitfield" => wire = << >> /\ pos = 0
    /\ (pc # "SendBitfield" /\ Count(localBitfield) = 0) => wire = << >>
    /\ (pc # "SendBitfield" /\ Count(localBitfield) > 0 /\ exit # "sendBitfield") =>
           wire = Encode(messageid_Bitfield, Bytes(localBitfield))
    /\ exit = "sendBitfield" =>
           /\ Count(localBitfield) > 0
           /\ wire = << >>
           /\ pc = "Done"
           /\ pos = 0
           /\ stream = << >>
           /\ Forwarded = << >>
           /\ bitfield = NilBitfield
           /\ peerChoking /\ ~peerInterested

\* Run has written its bitfield and has then read a message
C12_Witness ==
    /\ WireIds(wire) = << messageid_Bitfield >>
    /\ Count(localBitfield) > 0
    /\ pos > 0

\* the event a link would place on the messages channel to hand an accepted
\* block to the piece/block tracker
PieceEvent(index, begin, block) ==
    [ev |-> "Piece", index |-> index, begin |-> begin, block |-> block]

\* the blocks handed to the piece/block tracker so far
Stored == SelectSeq(Forwarded, LAMBDA e : e.ev = "Piece")

\* C14: a download completes only if the blocks the leecher receives reach
\* its piece/block tracker: when Run reads a piece message that carries a
\* block, the block is handed on.
C14_ReceivedBlockIsStored ==
    [][ (Incoming(messageid_Piece) /\ length > 9 /\ Avail >= 4 + length /\ ReadsMessage) =>
            Stored' = Append(Stored,
                             PieceEvent(U32(stream, pos + 5), U32(stream, pos + 9),
                                        SubSeq(stream, pos + 14, pos + 4 + length))) ]_vars

\* C15: every access to the per-peer state (the four flags and p.bitfield)
\* is made while p.m is held.
C15_StateOnlyUnderLock == unguarded = {}

\* the declared length of the incoming message does not fit the fixed
\* layout of its type
MalformedLength ==
    \/ \E m \in FlagIds : Incoming(m) /\ length # 1
    \/ Incoming(messageid_Have) /\ length # 5
    \/ Incoming(messageid_Piece) /\ length < 9

\* C16: a message whose declared length does not fit the fixed layout of its
\* type (choke .. not-interested with L # 1, have with L # 5, piece with
\* L < 9) makes Run exit with a protocol violation before any payload byte
\* is read.
C16_FixedLengthValidated ==
    [][ (MalformedLength /\ ReadsMessage) =>
            (pc' = "Done" /\ exit' = "violation" /\ pos' <= pos + 5) ]_vars

\* C17: a piece message whose index is not below the number of pieces is a
\* protocol violation: Run exits and hands nothing of it to the piece/block
\* tracker.
C17_PieceIndexValidated ==
    [][ (Incoming(messageid_Piece) /\ InvalidIndex(U32(stream, pos + 5)) /\ ReadsMessage) =>
            (pc' = "Done" /\ exit' = "violation" /\ Stored' = Stored) ]_vars

\* e is the event of the message that Run read last, the one that ends at
\* pos: a Choke for a choke message, the Have of its index for a have
\* message, the Have of a bit that is set for a bitfield message
EventOfLastRead(e) ==
    \/ /\ pc = "FwdChoke"
       /\ stream[pos] = messageid_Choke
       /\ e = [ev |-> "Choke", index |-> 0]
    \/ /\ pc = "FwdHave"
       /\ stream[pos - 4] = messageid_Have
       /\ e = [ev |-> "Have", index |-> U32(stream, pos - 4)]
    \/ /\ pc = "Scan"
       /\ stream[pos - NumBytes(NumPieces)] = messageid_Bitfield
       /\ e.ev = "Have"
       /\ e.index \in 0..(NumPieces - 1)
       /\ Test(NewBytes(SubSeq(stream, pos - NumBytes(NumPieces) + 1, pos), NumPieces),
               e.index)

\* C20: a link places no event on the message channel once its disconnect
\* signal has fired, and every event it places is appended after the events
\* placed before, is the event of the message read last, and is placed
\* before the next message is read.
C20_EventsBeforeDisconnectInReadOrder ==
    [][ /\ disconnected = 1 => Forwarded' = Forwarded
        /\ Forwarded' # Forwarded =>
             /\ disconnected = 0
             /\ disconnected' = 0
             /\ pos' = pos
             /\ Len(Forwarded') = Len(Forwarded) + 1
             /\ SubSeq(Forwarded', 1, Len(Forwarded)) = Forwarded
             /\ EventOfLastRead(Forwarded'[Len(Forwarded')]) ]_vars

\* Run has exited after a bitfield message and a have message, and the
\* events of the bitfield message come before the event of the have message
C20_Witness ==
    /\ disconnected = 1
    /\ pos = Len(stream)
    /\ pos = 5 + NumBytes(NumPieces) + 9
    /\ stream[5] = messageid_Bitfield
    /\ stream[pos - 4] = messageid_Have
    /\ Len(Forwarded) >= 3
    /\ Forwarded[Len(Forwarded)] = [ev |-> "Have", index |-> NumPieces - 1]
    /\ U32(stream, pos - 4) = NumPieces - 1
    /\ Forwarded[1] = [ev |-> "Have", index |-> 0]
    /\ Forwarded[2] = [ev |-> "Have", index |-> 1]

---------------------------------------------------------------------------
(* Claims about the Send operations, continued *)

\* the buffers that the Send operations and sendBitfield hand to writeMessage
Sendable ==
    {Encode(m, << >>) : m \in FlagIds}
    \cup {Encode(messageid_Request, req) : req \in Requests}
    \cup {Encode(messageid_Piece, msg) : msg \in Blocks}
    \cup {Encode(messageid_Bitfield, Bytes(b)) : b \in LocalBitfields}

\* s is a concatenation of whole messages that were handed to writeMessage
RECURSIVE WholeMessages(_)
WholeMessages(s) ==
    \/ s = << >>
    \/ /\ Len(s) >= 5
       /\ U32(s, 0) >= 1
       /\ U32(s, 0) <= Len(s) - 4
       /\ SubSeq(s, 1, 4 + U32(s, 0)) \in Sendable
       /\ WholeMessages(SubSeq(s, 4 + U32(s, 0) + 1, Len(s)))

\* C13: under any interleaving of concurrent callers of the Send operations
\* and of Run's bitfield send, the bytes on the connection are a
\* concatenation of whole messages.
C13_WholeMessagesOnWire == WholeMessages(wire)

\* after Run's bitfield, one caller's message has come onto the connection
\* while the other caller was between its flag update and its write, and a
\* third message is about to be written
C13_Witness ==
    /\ Len(WireIds(wire)) >= 2
    /\ WireIds(wire)[1] = messageid_Bitfield
    /\ cpc["c1"].at = "write"
    /\ cpc["c2"].at = "write"
    /\ \E k \in 1..Len(returned) :
         /\ ~returned[k].err
         /\ returned[k].w0 = cpc["c1"].w0
         /\ returned[k].w1 > returned[k].w0
         /\ returned[k].w1 = Len(wire)

\* C18: when the write of a Send operation fails, the operation returns the
\* error and its flag keeps the value it had before the call.  Stated of the
\* call that returned last, before the next call.
C18_FailedSendKeepsFlag ==
    (/\ returned # << >>
     /\ \A c \in Sequential : cpc[c].at = "idle"
     /\ returned[Len(returned)].err) =>
        FlagOf(returned[Len(returned)].op) = returned[Len(returned)].found

\* the last message of s whose id is in ids is yes, or there is none and the
\* flag has its initial value
LastIs(s, ids, yes, initial) ==
    LET q == SelectSeq(s, LAMBDA x : x \in ids)
    IN  IF q = << >> THEN initial ELSE q[Len(q)] = yes

\* C19: once all concurrent calls have returned, all without an error,
\* amChoking is true iff the last choke/unchoke message on the wire is a
\* choke (or there is none), and amInterested is true iff the last
\* interested/not-interested message on the wire is an interested.
C19_FlagFollowsWire ==
    (/\ \A c \in Callers : cpc[c].at = "idle"
     /\ \A k \in 1..Len(returned) : ~returned[k].err) =>
        /\ amChoking = LastIs(WireIds(wire), {messageid_Choke, messageid_Unchoke},
                              messageid_Choke, TRUE)
        /\ amInterested = LastIs(WireIds(wire),
                                 {messageid_Interested, messageid_NotInterested},
                                 messageid_Interested, FALSE)

====
